---- MODULE Spec2Model ----
(***************************************************************************)
(* Model of the wavefile crate (src/src/lib.rs): WaveFile::open with its   *)
(* chunk-walking header parser read_header_chunks, and the frame iterator  *)
(* WaveFile::next.  The byte source is a finite, immutable sequence of     *)
(* bytes with a cursor; a read fails only by reaching the end of the       *)
(* source (byteorder's UnexpectedEOF).  Header integers are natural        *)
(* numbers; a sample is carried as the 8 little-endian bytes of the u64    *)
(* read_uint returns until `as u32` narrows it.  The files opened keep     *)
(* every payload byte below 128 so that a u32 stays below 2^31.            *)
(***************************************************************************)
EXTENDS Integers, Sequences, FiniteSets, TLC

VARIABLES
  file,           \* the bytes of the opened file
  pos,            \* the file's read cursor, a 0-based byte offset
  pc,             \* "start" | "loop" | "check" | "open" | "failed" | "panic"
  err,            \* the WavError open returned: [kind, msg], or NoErr
  have_fmt,       \* local of read_header_chunks
  chunk_id,       \* local of read_header_chunks
  chunk_size,     \* local of read_header_chunks
  data_size,      \* local of read_header_chunks
  info,           \* the WaveInfo under construction / owned by the reader
  current_frame,  \* WaveFile.current_frame
  result,         \* what the last call of next returned: "Some" | "None" | "-"
  frames,         \* the frames next has returned so far, in order
  calls,          \* number of calls of next so far
  reads,          \* number of read_uint calls next has made on the source
  fmt_pos,        \* history: offset of the payload of the last fmt chunk read
  data_pos,       \* history: offset of the cursor when the walk met the data chunk
  frame_pos       \* history: offset at which each returned frame started

vars == <<file, pos, pc, err, have_fmt, chunk_id, chunk_size, data_size, info,
          current_frame, result, frames, calls, reads, fmt_pos, data_pos, frame_pos>>

----------------------------------------------------------------------------
(* Bounds of the model *)

MaxPre == 1      \* chunks placed before the data chunk (besides the layouts below)
MaxDecl == 3     \* declared size of the data chunk (besides the large one below)
MaxTail == 5     \* bytes actually present after the data chunk header
MaxCalls == 7    \* calls of next

----------------------------------------------------------------------------
(* Program constants *)

RIFF == 1179011410    \* 0x46464952
WAVE == 1163280727    \* 0x45564157
FMT_ == 544501094     \* 0x20746d66
DATA == 1635017060    \* 0x61746164
LIST == 1414744396    \* 0x5453494c
FORMAT_PCM == 1

NoErr == [kind |-> "-", msg |-> "-"]

ZeroInfo ==
  [audio_format |-> 0, channels |-> 0, samples_rate |-> 0, byte_rate |-> 0,
   block_align |-> 0, bits_per_sample |-> 0, total_frames |-> 0]

----------------------------------------------------------------------------
(* Little-endian integers *)

RECURSIVE LittleEndian(_)
\* the unsigned little-endian value of a sequence of bytes
LittleEndian(b) ==
  IF b = <<>> THEN 0 ELSE Head(b) + 256 * LittleEndian(Tail(b))

RECURSIVE Digits(_, _)
\* the k low little-endian bytes of v
Digits(v, k) ==
  IF k = 0 THEN <<>> ELSE <<v % 256>> \o Digits(v \div 256, k - 1)

Zeros(k) == [i \in 1..k |-> 0]

Max(a, b) == IF a > b THEN a ELSE b

----------------------------------------------------------------------------
(* The byte source: reads and seeks on a file *)

\* byteorder's read_full on `n` bytes at offset p: all n bytes or UnexpectedEOF;
\* a short read consumes what was there.
ReadBytes(p, n) ==
  IF p + n <= Len(file)
    THEN [ok |-> TRUE, bytes |-> SubSeq(file, p + 1, p + n), pos |-> p + n]
    ELSE [ok |-> FALSE, bytes |-> <<>>, pos |-> Max(p, Len(file))]

\* read_u16 / read_u32 ::<LittleEndian>
ReadInt(p, n) ==
  LET r == ReadBytes(p, n)
  IN  [ok |-> r.ok, val |-> LittleEndian(r.bytes), pos |-> r.pos]

\* read_uint::<LittleEndian>(n): the u64 it returns, as its 8 little-endian bytes
\* (the n bytes read land in the front of a zeroed 8-byte buffer)
ReadUint(p, n) ==
  LET r == ReadBytes(p, n)
  IN  [ok |-> r.ok, u64 |-> r.bytes \o Zeros(8 - Len(r.bytes)), pos |-> r.pos]

\* `sample as u32`: the low 32 bits of the u64
AsU32(u64) == LittleEndian(SubSeq(u64, 1, 4))

----------------------------------------------------------------------------
(* WaveFile::read_header_chunks *)

Fail(kind, msg) ==
  /\ pc' = "failed"
  /\ err' = [kind |-> kind, msg |-> msg]

\* From<byteorder::Error>: UnexpectedEOF becomes ParseError("Unexpected EOF")
FailEOF == Fail("ParseError", "Unexpected EOF")

\* variant of NotWavefile that forgets the form type
NotWavefile_RiffOnly(id, type) == id # RIFF

\* line 111
NotWavefile(id, type) == id # RIFF \/ type # WAVE

\* lines 103-113: the RIFF envelope
ReadRiff ==
  /\ pc = "start"
  /\ LET a == ReadInt(pos, 4)
         b == ReadInt(a.pos, 4)
         c == ReadInt(b.pos, 4)
     IN  /\ pos' = (IF ~a.ok THEN a.pos ELSE IF ~b.ok THEN b.pos ELSE c.pos)
         /\ chunk_id' = (IF a.ok THEN a.val ELSE chunk_id)
         /\ IF ~(a.ok /\ b.ok /\ c.ok)
              THEN FailEOF
              ELSE IF NotWavefile(a.val, c.val)
                THEN Fail("ParseError", "Not a Wavefile")
                ELSE pc' = "loop" /\ err' = err
  /\ UNCHANGED <<file, have_fmt, chunk_size, data_size, info, current_frame,
                 result, frames, calls, reads, fmt_pos, data_pos, frame_pos>>

\* lines 127-128: the header of the next chunk
ChunkHeader ==
  LET a == ReadInt(pos, 4)
      b == ReadInt(a.pos, 4)
  IN  [ok |-> a.ok /\ b.ok, id |-> a.val, size |-> b.val,
       pos |-> IF a.ok THEN b.pos ELSE a.pos]

\* the loop body ends in UnexpectedEOF while reading the chunk header
HeaderEOF ==
  /\ pc = "loop"
  /\ ~ChunkHeader.ok
  /\ pos' = ChunkHeader.pos
  /\ FailEOF
  /\ UNCHANGED <<file, have_fmt, chunk_id, chunk_size, data_size, info,
                 current_frame, result, frames, calls, reads, fmt_pos, data_pos,
                 frame_pos>>

\* the six fields of the format chunk, read in order (lines 133-138)
FmtWidths == <<2, 2, 4, 4, 2, 2>>

RECURSIVE ReadFields(_, _)
ReadFields(p, widths) ==
  IF widths = <<>>
    THEN [ok |-> TRUE, vals |-> <<>>, pos |-> p]
    ELSE LET r == ReadInt(p, Head(widths))
         IN  IF ~r.ok
               THEN [ok |-> FALSE, vals |-> <<>>, pos |-> r.pos]
               ELSE LET rest == ReadFields(r.pos, Tail(widths))
                    IN  [ok |-> rest.ok, vals |-> <<r.val>> \o rest.vals,
                         pos |-> rest.pos]

\* variant of FmtInfo that stores the sample rate as the byte rate too
FmtInfo_RateTwice(v) ==
  [audio_format |-> v[1], channels |-> v[2], samples_rate |-> v[3],
   byte_rate |-> v[3], block_align |-> v[5], bits_per_sample |-> v[6],
   total_frames |-> 0]

FmtInfo(v) ==
  [audio_format |-> v[1], channels |-> v[2], samples_rate |-> v[3],
   byte_rate |-> v[4], block_align |-> v[5], bits_per_sample |-> v[6],
   total_frames |-> 0]

\* variant of FmtChunk that moves on to the declared end of the chunk
FmtChunk_SkipsDeclared ==
  /\ pc = "loop"
  /\ ChunkHeader.ok
  /\ ChunkHeader.id = FMT_
  /\ LET h == ChunkHeader
         r == ReadFields(h.pos, FmtWidths)
     IN  /\ chunk_id' = h.id
         /\ chunk_size' = h.size
         /\ have_fmt' = TRUE
         /\ pos' = (IF r.ok THEN Max(r.pos, h.pos + h.size) ELSE r.pos)
         /\ fmt_pos' = h.pos
         /\ IF r.ok
              THEN /\ info' = FmtInfo(r.vals)
                   /\ UNCHANGED <<pc, err>>
              ELSE /\ FailEOF
                   /\ UNCHANGED info
  /\ UNCHANGED <<file, data_size, current_frame, result, frames, calls, reads,
                 data_pos, frame_pos>>

\* lines 131-139: FMT_ arm
FmtChunk ==
  /\ pc = "loop"
  /\ ChunkHeader.ok
  /\ ChunkHeader.id = FMT_
  /\ LET h == ChunkHeader
         r == ReadFields(h.pos, FmtWidths)
     IN  /\ chunk_id' = h.id
         /\ chunk_size' = h.size
         /\ have_fmt' = TRUE
         /\ pos' = r.pos
         /\ fmt_pos' = h.pos
         /\ IF r.ok
              THEN /\ info' = FmtInfo(r.vals)
                   /\ UNCHANGED <<pc, err>>
              ELSE /\ FailEOF
                   /\ UNCHANGED info
  /\ UNCHANGED <<file, data_size, current_frame, result, frames, calls, reads,
                 data_pos, frame_pos>>

\* variant of DataChunk that skips the payload as the LIST arm does
DataChunk_Seeks ==
  /\ pc = "loop"
  /\ ChunkHeader.ok
  /\ ChunkHeader.id = DATA
  /\ chunk_id' = ChunkHeader.id
  /\ chunk_size' = ChunkHeader.size
  /\ data_size' = ChunkHeader.size
  /\ pos' = ChunkHeader.pos + ChunkHeader.size
  /\ data_pos' = ChunkHeader.pos
  /\ pc' = "check"
  /\ UNCHANGED <<file, err, have_fmt, info, current_frame, result, frames, calls,
                 reads, fmt_pos, frame_pos>>

\* lines 140-143: DATA arm
DataChunk ==
  /\ pc = "loop"
  /\ ChunkHeader.ok
  /\ ChunkHeader.id = DATA
  /\ chunk_id' = ChunkHeader.id
  /\ chunk_size' = ChunkHeader.size
  /\ data_size' = ChunkHeader.size
  /\ pos' = ChunkHeader.pos
  /\ data_pos' = ChunkHeader.pos
  /\ pc' = "check"
  /\ UNCHANGED <<file, err, have_fmt, info, current_frame, result, frames, calls,
                 reads, fmt_pos, frame_pos>>

\* variant of ListChunk that seeks from the start of the file
ListChunk_FromStart ==
  /\ pc = "loop"
  /\ ChunkHeader.ok
  /\ ChunkHeader.id = LIST
  /\ chunk_id' = ChunkHeader.id
  /\ chunk_size' = ChunkHeader.size
  /\ pos' = ChunkHeader.size
  /\ UNCHANGED <<file, pc, err, have_fmt, data_size, info, current_frame, result,
                 frames, calls, reads, fmt_pos, data_pos, frame_pos>>

\* variant of ListChunk that skips one byte less than declared
ListChunk_SkipsShort ==
  /\ pc = "loop"
  /\ ChunkHeader.ok
  /\ ChunkHeader.id = LIST
  /\ chunk_id' = ChunkHeader.id
  /\ chunk_size' = ChunkHeader.size
  /\ pos' = ChunkHeader.pos + Max(ChunkHeader.size, 1) - 1
  /\ UNCHANGED <<file, pc, err, have_fmt, data_size, info, current_frame, result,
                 frames, calls, reads, fmt_pos, data_pos, frame_pos>>

\* line 144: LIST arm, seek(SeekFrom::Current(chunk_size as i64))
ListChunk ==
  /\ pc = "loop"
  /\ ChunkHeader.ok
  /\ ChunkHeader.id = LIST
  /\ chunk_id' = ChunkHeader.id
  /\ chunk_size' = ChunkHeader.size
  /\ pos' = ChunkHeader.pos + ChunkHeader.size
  /\ UNCHANGED <<file, pc, err, have_fmt, data_size, info, current_frame, result,
                 frames, calls, reads, fmt_pos, data_pos, frame_pos>>

\* variant of OtherChunk that skips an unknown chunk as the LIST arm does
OtherChunk_Skips ==
  /\ pc = "loop"
  /\ ChunkHeader.ok
  /\ ChunkHeader.id \notin {FMT_, DATA, LIST}
  /\ chunk_id' = ChunkHeader.id
  /\ chunk_size' = ChunkHeader.size
  /\ pos' = ChunkHeader.pos + ChunkHeader.size
  /\ UNCHANGED <<file, pc, err, have_fmt, data_size, info, current_frame, result,
                 frames, calls, reads, fmt_pos, data_pos, frame_pos>>

\* line 145: any other chunk id
OtherChunk ==
  /\ pc = "loop"
  /\ ChunkHeader.ok
  /\ ChunkHeader.id \notin {FMT_, DATA, LIST}
  /\ chunk_id' = ChunkHeader.id
  /\ chunk_size' = ChunkHeader.size
  /\ pos' = ChunkHeader.pos
  /\ Fail("ParseError", "Unexpected Chunk ID")
  /\ UNCHANGED <<file, have_fmt, data_size, info, current_frame, result, frames,
                 calls, reads, fmt_pos, data_pos, frame_pos>>

\* the product of two u16 values as two 16-bit halves, hi * 65536 + lo; it fits
\* in a u32 exactly when hi < 65536
MulU16(a, b) ==
  LET p0  == (a % 256) * b
      p1  == (a \div 256) * b
      mid == p0 + (p1 % 256) * 256
  IN  [hi |-> (p1 \div 256) + (mid \div 65536), lo |-> mid % 65536]

\* line 161, the divisor `channels as u32 * bits_per_sample as u32 / 8`: the
\* product wraps at 32 bits, then is divided by 8
FrameDivisor(channels, bits) ==
  LET m == MulU16(channels, bits)
  IN  (m.hi % 65536) * 8192 + m.lo \div 8

\* line 161
\* variant of TotalFrames that forgets the width of a sample
TotalFrames_PerChannel(size, channels, bits) ==
  size \div channels

\* variant of TotalFrames that divides the depth before multiplying
TotalFrames_PerSample(size, channels, bits) ==
  size \div (channels * (bits \div 8))

TotalFrames(size, channels, bits) ==
  size \div FrameDivisor(channels, bits)

\* lines 149-159: the verdict on the walked chunks
\* variant of Verdict without the check of line 153
Verdict_NoPcmCheck(seen, i) ==
  IF ~seen THEN [kind |-> "ParseError", msg |-> "Format Chunk not found"]
  ELSE IF i.channels = 0 \/ i.bits_per_sample < 8
    THEN [kind |-> "ParseError",
          msg |-> "Invalid channel or bits per sample value found"]
  ELSE NoErr

\* variant of Verdict that looks at the format code before have_fmt
Verdict_PcmFirst(seen, i) ==
  IF i.audio_format # FORMAT_PCM
    THEN [kind |-> "Unsupported", msg |-> "Non-PCM Format"]
  ELSE IF ~seen THEN [kind |-> "ParseError", msg |-> "Format Chunk not found"]
  ELSE IF i.channels = 0 \/ i.bits_per_sample < 8
    THEN [kind |-> "ParseError",
          msg |-> "Invalid channel or bits per sample value found"]
  ELSE NoErr

\* variant of Verdict that checks the channel count only
Verdict_NoBitsCheck(seen, i) ==
  IF ~seen THEN [kind |-> "ParseError", msg |-> "Format Chunk not found"]
  ELSE IF i.audio_format # FORMAT_PCM
    THEN [kind |-> "Unsupported", msg |-> "Non-PCM Format"]
  ELSE IF i.channels = 0
    THEN [kind |-> "ParseError",
          msg |-> "Invalid channel or bits per sample value found"]
  ELSE NoErr

Verdict(seen, i) ==
  IF ~seen THEN [kind |-> "ParseError", msg |-> "Format Chunk not found"]
  ELSE IF i.audio_format # FORMAT_PCM
    THEN [kind |-> "Unsupported", msg |-> "Non-PCM Format"]
  ELSE IF i.channels = 0 \/ i.bits_per_sample < 8
    THEN [kind |-> "ParseError",
          msg |-> "Invalid channel or bits per sample value found"]
  ELSE NoErr

\* lines 149-163 and open's lines 96-98
Finish ==
  /\ pc = "check"
  /\ LET v == Verdict(have_fmt, info)
     IN  IF v # NoErr
           THEN /\ pc' = "failed"
                /\ err' = v
                /\ UNCHANGED <<info, current_frame>>
           ELSE IF FrameDivisor(info.channels, info.bits_per_sample) = 0
           THEN \* a division by zero panics
                /\ pc' = "panic"
                /\ UNCHANGED <<err, info, current_frame>>
           ELSE /\ pc' = "open"
                /\ info' = [info EXCEPT !.total_frames =
                              TotalFrames(data_size, info.channels,
                                          info.bits_per_sample)]
                /\ current_frame' = 0
                /\ err' = err
  /\ UNCHANGED <<file, pos, have_fmt, chunk_id, chunk_size, data_size, result,
                 frames, calls, reads, fmt_pos, data_pos, frame_pos>>

----------------------------------------------------------------------------
(* WaveFile::next *)

RECURSIVE ReadSamples(_, _, _)
\* lines 76-81: `k` samples of `n` bytes from offset p, stopping at the first
\* failed read
ReadSamples(p, n, k) ==
  IF k = 0
    THEN [ok |-> TRUE, samples |-> <<>>, pos |-> p, reads |-> 0]
    ELSE LET r == ReadUint(p, n)
         IN  IF ~r.ok
               THEN [ok |-> FALSE, samples |-> <<>>, pos |-> r.pos, reads |-> 1]
               ELSE LET rest == ReadSamples(r.pos, n, k - 1)
                    IN  [ok |-> rest.ok,
                         samples |-> <<AsU32(r.u64)>> \o rest.samples,
                         pos |-> rest.pos, reads |-> 1 + rest.reads]

\* variant of Classify that pairs up every frame of two or more samples
Classify_PairForMany(samples) ==
  IF Len(samples) = 0 THEN [tag |-> "unreachable", samples |-> samples]
  ELSE IF Len(samples) = 1 THEN [tag |-> "Mono", samples |-> samples]
  ELSE [tag |-> "Stereo", samples |-> samples]

\* lines 82-87; the samples are as many as the channels, and the arm for 0
\* channels is unreachable!()
Classify(samples) ==
  IF Len(samples) = 0 THEN [tag |-> "unreachable", samples |-> samples]
  ELSE IF Len(samples) = 1 THEN [tag |-> "Mono", samples |-> samples]
  ELSE IF Len(samples) = 2 THEN [tag |-> "Stereo", samples |-> samples]
  ELSE [tag |-> "Multi", samples |-> samples]

\* line 73
BytesPerSample == info.bits_per_sample \div 8

\* variant of Exhausted with > for >=
Exhausted_Strict == current_frame > info.total_frames

\* line 70
Exhausted == current_frame >= info.total_frames

\* lines 70-72: the counter says the sequence is over
NextExhausted ==
  /\ pc = "open"
  /\ calls < MaxCalls
  /\ Exhausted
  /\ result' = "None"
  /\ calls' = calls + 1
  /\ UNCHANGED <<file, pos, pc, err, have_fmt, chunk_id, chunk_size, data_size,
                 info, current_frame, frames, reads, fmt_pos, data_pos, frame_pos>>

\* line 77 with bytes_per_sample > 8: read_uint slices its 8-byte buffer out of
\* range and panics before any byte is read
NextPanic ==
  /\ pc = "open"
  /\ calls < MaxCalls
  /\ ~Exhausted
  /\ BytesPerSample > 8
  /\ pc' = "panic"
  /\ result' = "-"
  /\ calls' = calls + 1
  /\ UNCHANGED <<file, pos, err, have_fmt, chunk_id, chunk_size, data_size, info,
                 current_frame, frames, reads, fmt_pos, data_pos, frame_pos>>

\* lines 73-87: read one sample per channel, return the frame or None
NextRead ==
  /\ pc = "open"
  /\ calls < MaxCalls
  /\ ~Exhausted
  /\ BytesPerSample <= 8
  /\ LET r == ReadSamples(pos, BytesPerSample, info.channels)
     IN  /\ pos' = r.pos
         /\ reads' = reads + r.reads
         /\ IF r.ok
              THEN /\ result' = "Some"
                   /\ frames' = Append(frames, Classify(r.samples))
                   /\ frame_pos' = Append(frame_pos, pos)
              ELSE /\ result' = "None"
                   /\ UNCHANGED <<frames, frame_pos>>
  /\ calls' = calls + 1
  /\ UNCHANGED <<file, pc, err, have_fmt, chunk_id, chunk_size, data_size, info,
                 current_frame, fmt_pos, data_pos>>

----------------------------------------------------------------------------
(* open and next as functions of the bytes of a file, for comparing the runs *)
(* on two files                                                              *)

\* read_u16 / read_u32 ::<LittleEndian> at offset p of the bytes f
ReadIntIn(f, p, n) ==
  IF p + n <= Len(f)
    THEN [ok |-> TRUE, val |-> LittleEndian(SubSeq(f, p + 1, p + n)), pos |-> p + n]
    ELSE [ok |-> FALSE, val |-> 0, pos |-> Max(p, Len(f))]

\* lines 127-128
ChunkHeaderIn(f, p) ==
  LET a == ReadIntIn(f, p, 4)
      b == ReadIntIn(f, a.pos, 4)
  IN  [ok |-> a.ok /\ b.ok, id |-> a.val, size |-> b.val,
       pos |-> IF a.ok THEN b.pos ELSE a.pos]

RECURSIVE ReadFieldsIn(_, _, _)
\* lines 133-138
ReadFieldsIn(f, p, widths) ==
  IF widths = <<>>
    THEN [ok |-> TRUE, vals |-> <<>>, pos |-> p]
    ELSE LET r == ReadIntIn(f, p, Head(widths))
         IN  IF ~r.ok
               THEN [ok |-> FALSE, vals |-> <<>>, pos |-> r.pos]
               ELSE LET rest == ReadFieldsIn(f, r.pos, Tail(widths))
                    IN  [ok |-> rest.ok, vals |-> <<r.val>> \o rest.vals,
                         pos |-> rest.pos]

\* what open returns: Err(err), Ok(info) with the cursor at pos, or a panic
Outcome(out, e, i, p) == [out |-> out, err |-> e, info |-> i, pos |-> p]

OutcomeEOF(p) ==
  Outcome("err", [kind |-> "ParseError", msg |-> "Unexpected EOF"], ZeroInfo, p)

\* lines 149-163
FinishOf(seen, i, size, p) ==
  LET v == Verdict(seen, i)
  IN  IF v # NoErr THEN Outcome("err", v, ZeroInfo, p)
      ELSE IF FrameDivisor(i.channels, i.bits_per_sample) = 0
        THEN Outcome("panic", NoErr, ZeroInfo, p)
      ELSE Outcome("ok", NoErr,
                   [i EXCEPT !.total_frames =
                      TotalFrames(size, i.channels, i.bits_per_sample)], p)

RECURSIVE WalkOf(_, _, _, _)
\* lines 126-147: the loop, from offset p with the locals have_fmt and info
WalkOf(f, p, seen, i) ==
  LET h == ChunkHeaderIn(f, p)
  IN  IF ~h.ok THEN OutcomeEOF(h.pos)
      ELSE IF h.id = FMT_
        THEN LET r == ReadFieldsIn(f, h.pos, FmtWidths)
             IN  IF r.ok THEN WalkOf(f, r.pos, TRUE, FmtInfo(r.vals))
                 ELSE OutcomeEOF(r.pos)
      ELSE IF h.id = DATA THEN FinishOf(seen, i, h.size, h.pos)
      ELSE IF h.id = LIST THEN WalkOf(f, h.pos + h.size, seen, i)
      ELSE Outcome("err", [kind |-> "ParseError", msg |-> "Unexpected Chunk ID"],
                   ZeroInfo, h.pos)

\* lines 101-164: read_header_chunks on the bytes f
OpenOf(f) ==
  LET a == ReadIntIn(f, 0, 4)
      b == ReadIntIn(f, a.pos, 4)
      c == ReadIntIn(f, b.pos, 4)
  IN  IF ~a.ok THEN OutcomeEOF(a.pos)
      ELSE IF ~b.ok THEN OutcomeEOF(b.pos)
      ELSE IF ~c.ok THEN OutcomeEOF(c.pos)
      ELSE IF NotWavefile(a.val, c.val)
        THEN Outcome("err", [kind |-> "ParseError", msg |-> "Not a Wavefile"],
                     ZeroInfo, c.pos)
      ELSE WalkOf(f, c.pos, FALSE, ZeroInfo)

RECURSIVE ReadSamplesIn(_, _, _, _)
\* lines 76-81
ReadSamplesIn(f, p, n, k) ==
  IF k = 0
    THEN [ok |-> TRUE, samples |-> <<>>, pos |-> p]
    ELSE IF p + n > Len(f)
      THEN [ok |-> FALSE, samples |-> <<>>, pos |-> Max(p, Len(f))]
      ELSE LET rest == ReadSamplesIn(f, p + n, n, k - 1)
               u64  == SubSeq(f, p + 1, p + n) \o Zeros(8 - n)
           IN  [ok |-> rest.ok, samples |-> <<AsU32(u64)>> \o rest.samples,
                pos |-> rest.pos]

RECURSIVE FramesOf(_, _, _, _)
\* lines 69-88: the frames k calls of next return, on a reader whose cursor is
\* at offset p; current_frame is 0 at every call, no line advances it
FramesOf(f, p, i, k) ==
  IF k = 0 \/ 0 >= i.total_frames \/ i.bits_per_sample \div 8 > 8
    THEN <<>>
    ELSE LET r == ReadSamplesIn(f, p, i.bits_per_sample \div 8, i.channels)
         IN  (IF r.ok THEN <<Classify(r.samples)>> ELSE <<>>)
               \o FramesOf(f, r.pos, i, k - 1)

----------------------------------------------------------------------------
(* The files the model opens *)

RiffTag == <<82, 73, 70, 70>>
WaveTag == <<87, 65, 86, 69>>
FmtTag  == <<102, 109, 116, 32>>
DataTag == <<100, 97, 116, 97>>
ListTag == <<76, 73, 83, 84>>
JunkTag == <<74, 85, 78, 75>>
BadTag  == <<82, 73, 70, 88>>

\* payload bytes: a fixed pattern of distinct non-zero bytes
Pattern(n) == [i \in 1..n |-> (i * 37 + 60) % 128]

Kinds == {"fmt", "fmtB", "LIST", "JUNK"}
FormatChoices == {1, 3}
ChannelChoices == {0, 1, 2, 3}
BitsChoices == {7, 8, 12, 16, 40, 72}
DeclChoices == (0..MaxDecl) \cup {9}
PreChoices ==
  UNION {[1..n -> Kinds] : n \in 0..MaxPre}
    \cup {<<"fmt", "fmtB">>, <<"fmtB", "fmt">>, <<"LIST", "fmt">>, <<"fmt", "LIST">>}

FmtBytes(af, ch, rate, brate, align, bits) ==
  FmtTag \o Digits(16, 4) \o Digits(af, 2) \o Digits(ch, 2) \o Digits(rate, 4)
    \o Digits(brate, 4) \o Digits(align, 2) \o Digits(bits, 2)

ChunkBytes(kind, af, ch, bits) ==
  CASE kind = "fmt"  -> FmtBytes(af, ch, 48000, 288000, 6, bits)
    [] kind = "fmtB" -> FmtBytes(1, 1, 8000, 8000, 1, 8)
    [] kind = "LIST" -> ListTag \o Digits(3, 4) \o Pattern(3)
    [] kind = "LIST0" -> ListTag \o Digits(0, 4)
    [] kind = "LISTbig" -> ListTag \o Digits(100, 4)
    [] kind = "fmtX" -> FmtTag \o Digits(18, 4)
                          \o SubSeq(FmtBytes(af, ch, 48000, 288000, 6, bits), 9, 24)
                          \o <<1, 2>>
    [] kind = "JUNK" -> JunkTag \o Digits(0, 4)

RECURSIVE PreBytes(_, _, _, _)
PreBytes(pre, af, ch, bits) ==
  IF pre = <<>> THEN <<>>
  ELSE ChunkBytes(Head(pre), af, ch, bits) \o PreBytes(Tail(pre), af, ch, bits)

FileBytes(riff, wave, pre, af, ch, bits, decl, tail) ==
  riff \o Digits(36 + decl, 4) \o wave \o PreBytes(pre, af, ch, bits)
    \o DataTag \o Digits(decl, 4) \o Pattern(tail)

\* files with a sound envelope: every chunk layout, format and data extent
BodyFiles ==
  {FileBytes(RiffTag, WaveTag, pre, af, ch, bits, decl, tail) :
     pre \in PreChoices, af \in FormatChoices, ch \in ChannelChoices,
     bits \in BitsChoices, decl \in DeclChoices, tail \in 0..MaxTail}

\* one layout under every envelope, cut off after any number of bytes
CutBase(riff, wave) ==
  FileBytes(riff, wave, <<"LIST", "fmt">>, 1, 2, 16, 4, 4)

CutFiles ==
  {SubSeq(CutBase(riff, wave), 1, n) :
     riff \in {RiffTag, BadTag}, wave \in {WaveTag, BadTag},
     n \in 0..Len(CutBase(RiffTag, WaveTag))}

\* further layouts: an extended format chunk (declared size 18), LIST chunks of
\* size 0, several LIST chunks, a LIST chunk declaring more bytes than the file
\* holds, an unknown chunk after the format chunk
ExtraPre ==
  {<<"fmtX">>, <<"fmtB", "fmtX">>, <<"LIST0", "fmt">>, <<"LIST", "fmt", "LIST0", "LIST">>,
   <<"LISTbig">>, <<"fmt", "LISTbig">>, <<"fmt", "JUNK">>}

ExtraFiles ==
  {FileBytes(RiffTag, WaveTag, pre, 1, ch, bits, decl, tail) :
     pre \in ExtraPre, ch \in {1, 2}, bits \in {8, 16},
     decl \in 0..MaxDecl, tail \in 0..MaxTail}

\* files whose format chunk comes after the data chunk
AfterFiles ==
  {FileBytes(RiffTag, WaveTag, pre, 1, 1, 8, decl, decl)
     \o ChunkBytes("fmt", af, ch, bits) :
     pre \in {<<>>, <<"LIST">>}, decl \in 0..MaxDecl, af \in FormatChoices,
     ch \in {0, 2}, bits \in {7, 16}}

\* the largest channel counts and depths a format chunk can carry
WideFiles ==
  {FileBytes(RiffTag, WaveTag, <<"fmt">>, 1, ch, bits, decl, tail) :
     ch \in {1, 65535}, bits \in {8, 65535}, decl \in {0, 9, 536854533},
     tail \in {0, MaxTail}}

----------------------------------------------------------------------------
(* The specification *)

Init ==
  /\ file \in BodyFiles \cup CutFiles \cup ExtraFiles \cup AfterFiles
                \cup WideFiles
  /\ pos = 0
  /\ pc = "start"
  /\ err = NoErr
  /\ have_fmt = FALSE
  /\ chunk_id = 0
  /\ chunk_size = 0
  /\ data_size = 0
  /\ info = ZeroInfo
  /\ current_frame = 0
  /\ result = "-"
  /\ frames = <<>>
  /\ calls = 0
  /\ reads = 0
  /\ fmt_pos = 0
  /\ data_pos = 0
  /\ frame_pos = <<>>

Next ==
  \/ ReadRiff
  \/ HeaderEOF
  \/ FmtChunk
  \/ DataChunk
  \/ ListChunk
  \/ OtherChunk
  \/ Finish
  \/ NextExhausted
  \/ NextPanic
  \/ NextRead

Spec == Init /\ [][Next]_vars

----------------------------------------------------------------------------
(* What the claims speak about, read off the file's bytes and the history *)

\* the unsigned little-endian value of the n bytes of the file at offset off
Field(off, n) == LittleEndian(SubSeq(file, off + 1, off + n))

\* open has returned a reader (which a later call of next may have crashed)
Opened == pc \in {"open", "panic"}

\* open has returned
Returned == pc \in {"open", "failed", "panic"}

\* the first 12 bytes are RIFF, a size, WAVE
GoodEnvelope ==
  /\ Len(file) >= 12
  /\ SubSeq(file, 1, 4) = RiffTag
  /\ SubSeq(file, 9, 12) = WaveTag

\* a whole format chunk (header and 16 bytes of fields) lies at offset i
FmtChunkAt(i) ==
  /\ i + 24 <= Len(file)
  /\ SubSeq(file, i + 1, i + 4) = FmtTag

\* the walk met a data chunk
ReachedData == data_pos > 0

\* the bytes the source holds after the data chunk header
Available == Len(file) - data_pos

\* the source holds at least the declared number of bytes of the data chunk
NotTruncated == Available >= data_size

\* the bytes one frame takes in the source
FrameBytes == info.channels * (info.bits_per_sample \div 8)

\* the fields of the format chunk read last, as the file's bytes give them
FileFormat   == Field(fmt_pos, 2)
FileChannels == Field(fmt_pos + 2, 2)
FileRate     == Field(fmt_pos + 4, 4)
FileByteRate == Field(fmt_pos + 8, 4)
FileAlign    == Field(fmt_pos + 12, 2)
FileBits     == Field(fmt_pos + 14, 2)

----------------------------------------------------------------------------
(* C1 *)

\* C1 (as stated): on an accepted file that is not truncated, next returns
\* exactly total_frames frames: never more than total_frames, and once it has
\* returned end-of-sequence exactly total_frames have been returned.
C1_ExactlyTotalFrames ==
  (Opened /\ NotTruncated) =>
     /\ pc = "open"
     /\ Len(frames) <= info.total_frames
     /\ (result = "None" => Len(frames) = info.total_frames)

----------------------------------------------------------------------------
(* C2 *)

\* C2: when read_header_chunks returns a descriptor, the 8 bytes right before
\* the cursor are the header of the data chunk (the tag `data` and the size
\* recorded as data_size), so the cursor is at the first payload byte and no
\* sample byte has been consumed.
C2_CursorAtData ==
  (pc = "open" /\ calls = 0) =>
     /\ 20 <= pos /\ pos <= Len(file)
     /\ SubSeq(file, pos - 7, pos - 4) = DataTag
     /\ Field(pos - 4, 4) = data_size

\* a descriptor was returned for a file whose walk skipped a LIST chunk and whose
\* data chunk has sample bytes
C2_Witness ==
  /\ pc = "open" /\ calls = 0
  /\ chunk_id = DATA
  /\ data_size > 0
  /\ pos < Len(file)
  /\ SubSeq(file, 13, 16) = ListTag

----------------------------------------------------------------------------
(* C3 *)

\* C3: an input whose first 12 bytes are not RIFF, size, WAVE (shorter inputs
\* included) never gets past the envelope: open fails with a ParseError and no
\* reader exists.
C3_BadEnvelopeFails ==
  (pc # "start" /\ ~GoodEnvelope) =>
     /\ pc = "failed"
     /\ err.kind = "ParseError"
     /\ frames = <<>> /\ calls = 0

\* open failed on a file of more than 12 bytes whose form type is not WAVE
C3_Witness ==
  /\ pc = "failed"
  /\ Len(file) > 12
  /\ SubSeq(file, 1, 4) = RiffTag
  /\ SubSeq(file, 9, 12) # WaveTag
  /\ err = [kind |-> "ParseError", msg |-> "Not a Wavefile"]

----------------------------------------------------------------------------
(* C4 *)

\* C4 (as stated): every input holding a format chunk whose audio_format is
\* not 1 fails to open with Unsupported.
C4_AnyNonPcmUnsupported ==
  (Returned /\ \E i \in 0..Len(file) : FmtChunkAt(i) /\ Field(i + 8, 2) # 1) =>
     (pc = "failed" /\ err.kind = "Unsupported")

\* C4 (amended): if the chunk walk reaches the data chunk and the format chunk
\* read last before it has audio_format # 1, open fails with Unsupported.
C4_NonPcmUnsupported ==
  (Returned /\ ReachedData /\ have_fmt /\ FileFormat # 1) =>
     (pc = "failed" /\ err = [kind |-> "Unsupported", msg |-> "Non-PCM Format"])

\* open failed with Unsupported on a float file with sound channels and depth
C4_Witness ==
  /\ pc = "failed"
  /\ err.kind = "Unsupported"
  /\ ReachedData /\ have_fmt
  /\ FileFormat = 3 /\ FileChannels = 2 /\ FileBits = 16

----------------------------------------------------------------------------
(* C5 *)

\* C5 (as stated): every input holding a format chunk with channels = 0 or
\* bits_per_sample < 8 fails to open with a ParseError.
C5_AnyBadShapeParseError ==
  (Returned /\ \E i \in 0..Len(file) :
                  FmtChunkAt(i) /\ (Field(i + 10, 2) = 0 \/ Field(i + 22, 2) < 8)) =>
     (pc = "failed" /\ err.kind = "ParseError")

\* C5 (amended): if the chunk walk reaches the data chunk and the format chunk
\* read last before it has channels = 0 or bits_per_sample < 8, open fails:
\* with a ParseError when its audio_format is 1, with Unsupported otherwise.
C5_BadShapeFails ==
  (Returned /\ ReachedData /\ have_fmt /\ (FileChannels = 0 \/ FileBits < 8)) =>
     /\ pc = "failed"
     /\ err.kind = (IF FileFormat = 1 THEN "ParseError" ELSE "Unsupported")

\* open failed with the ParseError of line 158 on a PCM file of depth 7 with
\* two channels
C5_Witness ==
  /\ pc = "failed"
  /\ ReachedData /\ have_fmt
  /\ FileFormat = 1 /\ FileChannels = 2 /\ FileBits = 7
  /\ err = [kind |-> "ParseError",
            msg |-> "Invalid channel or bits per sample value found"]

----------------------------------------------------------------------------
(* C6 *)

\* C6: open is strict.  A reader exists only with a descriptor whose fields
\* are the little-endian fields of a format chunk that lies wholly before the
\* data chunk, with audio_format = 1, channels >= 1 and bits_per_sample >= 8;
\* otherwise open has returned an error and nothing was ever read as a frame.
C6_Strict ==
  /\ Opened =>
       /\ err = NoErr
       /\ have_fmt
       /\ 20 <= fmt_pos /\ fmt_pos + 16 <= data_pos - 8
       /\ SubSeq(file, fmt_pos - 7, fmt_pos - 4) = FmtTag
       /\ info.audio_format = FileFormat /\ FileFormat = 1
       /\ info.channels = FileChannels /\ FileChannels >= 1
       /\ info.bits_per_sample = FileBits /\ FileBits >= 8
       /\ info.samples_rate = FileRate
       /\ info.byte_rate = FileByteRate
       /\ info.block_align = FileAlign
  /\ pc = "failed" => err.kind \in {"ParseError", "Unsupported"}
  /\ ~Opened => (calls = 0 /\ frames = <<>> /\ result = "-")

\* a reader for a file with two format chunks: the descriptor carries the
\* fields of the second one (stereo, 16 bit, 48000 Hz)
C6_Witness ==
  /\ pc = "open"
  /\ fmt_pos = 44
  /\ info.channels = 2 /\ info.bits_per_sample = 16
  /\ info.samples_rate = 48000 /\ info.byte_rate = 288000
  /\ info.block_align = 6

----------------------------------------------------------------------------
(* C7 *)

----------------------------------------------------------------------------
(* C8 *)

\* the value v, of at most 32 bits, lies in [0, 2^bits - 1]
InRange(v, bits) == v >= 0 /\ (bits < 31 => v < 2 ^ bits)

\* C8 (as stated): every sample of every returned frame lies in
\* [0, 2^bits_per_sample - 1] and is the unsigned little-endian value of the
\* bits_per_sample / 8 bytes it was read from, at every accepted depth.
C8_SamplesFaithful ==
  Opened =>
    /\ \A i \in 1..Len(frames) :
         \A j \in 1..Len(frames[i].samples) :
           LET n     == info.bits_per_sample \div 8
               off   == frame_pos[i] + (j - 1) * n
               bytes == SubSeq(file, off + 1, off + n)
               v     == frames[i].samples[j]
           IN  /\ InRange(v, info.bits_per_sample)
               /\ Len(bytes) = n
               /\ Digits(v, 4) \o Zeros(n - 4) = bytes \o Zeros(4 - n)

----------------------------------------------------------------------------
(* C9 *)

\* the complete frames the source holds after the data chunk header
WholeFrames == Available \div FrameBytes

\* C9 (as stated): if the source ends after N complete frames, N below
\* total_frames, next returns those N frames and then end-of-sequence; it
\* never returns a frame of fewer than `channels` samples and a failed read is
\* never reported as an error.
C9_Lenient ==
  (Opened /\ WholeFrames < info.total_frames) =>
     /\ pc = "open"
     /\ Len(frames) <= WholeFrames
     /\ (result = "None" => Len(frames) = WholeFrames)
     /\ \A i \in 1..Len(frames) : Len(frames[i].samples) = info.channels

----------------------------------------------------------------------------
(* C10 *)

\* C10 (as stated): once next has returned end-of-sequence, every later call
\* returns end-of-sequence, makes no read from the source and leaves the
\* cursor and the reader unchanged.
C10_AbsorbingNoRead ==
  [][(pc = "open" /\ result = "None") =>
       /\ result' = "None"
       /\ reads' = reads
       /\ pos' = pos
       /\ <<pc, info, current_frame, frames>>' = <<pc, info, current_frame, frames>>
    ]_vars

\* C10 (amended): once next has returned end-of-sequence, every later call
\* returns end-of-sequence and leaves the cursor and the reader unchanged;
\* after counter exhaustion it makes no read, after a read failure it makes
\* one more read_uint call, which fails at the end of the source.
C10_Absorbing ==
  [][(pc = "open" /\ result = "None") =>
       /\ result' = "None"
       /\ pos' = pos
       /\ <<pc, info, current_frame, frames>>' = <<pc, info, current_frame, frames>>
       /\ reads' = reads + (IF current_frame >= info.total_frames THEN 0 ELSE 1)
       /\ (current_frame < info.total_frames => pos = Len(file))
    ]_vars

\* next has returned end-of-sequence at least twice on a reader whose counter
\* is below total_frames and that had returned a frame before
C10_Witness ==
  /\ pc = "open"
  /\ result = "None"
  /\ current_frame < info.total_frames
  /\ Len(frames) >= 1
  /\ calls >= Len(frames) + 2

----------------------------------------------------------------------------
(* C11 *)

\* the bytes of a sample that `as u32` keeps
KeptBytes == IF BytesPerSample < 4 THEN BytesPerSample ELSE 4

\* C11: every returned frame carries exactly `channels` samples, sample j being
\* read from the j-th sample slot of the frame in the file; its variant is Mono
\* for 1 channel, Stereo for 2, Multi for 3 or more; a reader never has 0
\* channels, so the unreachable arm of next is never taken.
C11_FrameShape ==
  Opened =>
    /\ info.channels >= 1
    /\ \A i \in 1..Len(frames) :
         /\ Len(frames[i].samples) = info.channels
         /\ frames[i].tag = (IF info.channels = 1 THEN "Mono"
                             ELSE IF info.channels = 2 THEN "Stereo"
                             ELSE "Multi")
         /\ \A j \in 1..info.channels :
              frames[i].samples[j] =
                Field(frame_pos[i] + (j - 1) * BytesPerSample, KeptBytes)

\* a 3-channel reader has returned a Multi frame of three different samples
C11_Witness ==
  /\ pc = "open"
  /\ info.channels = 3
  /\ Len(frames) >= 1
  /\ frames[1].tag = "Multi"
  /\ Len(frames[1].samples) = 3
  /\ frames[1].samples[1] # frames[1].samples[2]
  /\ frames[1].samples[2] # frames[1].samples[3]

----------------------------------------------------------------------------
(* C12 *)

\* C12: when the walk stands before a complete chunk header whose identifier
\* is none of `fmt `, `data`, `LIST`, its next step fails open with
\* ParseError("Unexpected Chunk ID"), having read the 8 header bytes only: the
\* chunk is not skipped.
C12_UnknownChunkFails ==
  [][(/\ pc = "loop"
      /\ pos + 8 <= Len(file)
      /\ SubSeq(file, pos + 1, pos + 4) \notin {FmtTag, DataTag, ListTag}) =>
       /\ pc' = "failed"
       /\ err' = [kind |-> "ParseError", msg |-> "Unexpected Chunk ID"]
       /\ pos' = pos + 8
       /\ <<have_fmt, info, data_pos>>' = <<have_fmt, info, data_pos>>
    ]_vars

\* open failed on an unknown chunk that follows a format chunk
C12_Witness ==
  /\ pc = "failed"
  /\ err = [kind |-> "ParseError", msg |-> "Unexpected Chunk ID"]
  /\ have_fmt
  /\ SubSeq(file, pos - 7, pos - 4) = JunkTag

----------------------------------------------------------------------------
(* C13 *)

\* C13: if the walk reaches the data chunk without having read a format chunk
\* (fmt_pos still unset), open fails with ParseError("Format Chunk not found"),
\* whatever a format chunk behind the data chunk says: this error comes before
\* the Unsupported and the channel / depth errors.
C13_FormatNotFound ==
  (Returned /\ ReachedData /\ fmt_pos = 0) =>
     /\ pc = "failed"
     /\ err = [kind |-> "ParseError", msg |-> "Format Chunk not found"]

\* open failed so on a file whose format chunk, a non-PCM one with 0 channels,
\* lies right behind the data chunk's payload
C13_Witness ==
  /\ pc = "failed"
  /\ err = [kind |-> "ParseError", msg |-> "Format Chunk not found"]
  /\ ReachedData
  /\ FmtChunkAt(data_pos + data_size)
  /\ Field(data_pos + data_size + 8, 2) = 3
  /\ Field(data_pos + data_size + 10, 2) = 0

----------------------------------------------------------------------------
(* C14 *)

\* C14 (as stated): current_frame is 0 in the reader open returns and always
\* equals the number of frames next has returned.
C14_CounterCountsFrames ==
  Opened => current_frame = Len(frames)

----------------------------------------------------------------------------
(* C15 *)

RECURSIVE StripLists(_, _)
\* the bytes f without the LIST chunks that stand, with their whole declared
\* payload, at the chunk boundaries from offset p up to the data chunk
StripLists(f, p) ==
  LET h == ChunkHeaderIn(f, p)
  IN  IF ~h.ok THEN f
      ELSE IF h.id = LIST /\ h.pos + h.size <= Len(f)
        THEN StripLists(SubSeq(f, 1, p) \o SubSeq(f, h.pos + h.size + 1, Len(f)), p)
      ELSE IF h.id = FMT_ /\ h.pos + 16 <= Len(f)
        THEN StripLists(f, h.pos + 16)
      ELSE f

\* the opened file is Stripped with LIST chunks inserted before its data chunk
Stripped == StripLists(file, 12)

\* what open returned in this run
RunOutcome ==
  IF pc = "failed" THEN [out |-> "err", err |-> err, info |-> ZeroInfo]
  ELSE IF pc = "panic" /\ calls = 0
    THEN [out |-> "panic", err |-> NoErr, info |-> ZeroInfo]
  ELSE [out |-> "ok", err |-> NoErr, info |-> info]

Descriptor(o) == [out |-> o.out, err |-> o.err, info |-> o.info]

\* once open has returned: its result, and the frames next has returned so
\* far, are those of the same calls on the file without its LIST chunks
SameAsStripped ==
  Returned =>
    LET o == OpenOf(Stripped)
    IN  /\ RunOutcome = Descriptor(OpenOf(file))
        /\ RunOutcome = Descriptor(o)
        /\ frames = (IF o.out = "ok" THEN FramesOf(Stripped, o.pos, o.info, calls)
                     ELSE <<>>)

\* the walk has just taken the LIST arm: chunk_id and chunk_size are those of
\* the chunk it skipped
AfterList == pc = "loop" /\ chunk_id = LIST

\* C15: right after the walk skipped a LIST chunk it is still in its loop and
\* the cursor stands exactly the declared size past the chunk's 8-byte header;
\* and a file with LIST chunks (each with its whole payload) inserted at chunk
\* boundaries before the data chunk gets the same result from open and the
\* same frames from next as the file without them.
C15_ListSkipped ==
  /\ AfterList =>
       /\ pos >= 20 + chunk_size
       /\ SubSeq(file, pos - chunk_size - 7, pos - chunk_size - 4) = ListTag
       /\ Field(pos - chunk_size - 4, 4) = chunk_size
  /\ (Returned /\ chunk_id = LIST) => pc = "failed"
  /\ SameAsStripped

\* two or more LIST chunks were skipped, on both sides of the format chunk,
\* and next has returned frames
C15_Witness ==
  /\ pc = "open"
  /\ Len(frames) >= 2
  /\ Len(file) - Len(Stripped) >= 30
  /\ fmt_pos > 20
  /\ data_pos > fmt_pos + 24

----------------------------------------------------------------------------
(* C16 *)

\* C16: a loop step standing before a format chunk that the file holds in full
\* moves the cursor exactly 8 + 16 bytes, whatever size the chunk declares, and
\* takes the six fields from those 16 bytes in order; every loop step takes
\* the chunk header from the 8 bytes at the cursor.  So the bytes that follow
\* the 16, extension bytes included, are read as the next chunk header.
C16_FmtReadsSixteen ==
  [][/\ (pc = "loop" /\ pos + 24 <= Len(file)
           /\ SubSeq(file, pos + 1, pos + 4) = FmtTag) =>
          /\ pc' = "loop"
          /\ pos' = pos + 24
          /\ have_fmt'
          /\ info' = [audio_format |-> Field(pos + 8, 2),
                      channels |-> Field(pos + 10, 2),
                      samples_rate |-> Field(pos + 12, 4),
                      byte_rate |-> Field(pos + 16, 4),
                      block_align |-> Field(pos + 20, 2),
                      bits_per_sample |-> Field(pos + 22, 2),
                      total_frames |-> 0]
     /\ (pc = "loop" /\ pos + 8 <= Len(file)) =>
          /\ chunk_id' = Field(pos, 4)
          /\ chunk_size' = Field(pos + 4, 4)
    ]_vars

\* after a format chunk declaring 18 bytes the walk took its two extension
\* bytes and the `da` of the data tag for a chunk identifier, and failed
C16_Witness ==
  /\ pc = "failed"
  /\ err = [kind |-> "ParseError", msg |-> "Unexpected Chunk ID"]
  /\ have_fmt
  /\ Field(fmt_pos - 4, 4) = 18
  /\ pos = fmt_pos + 24
  /\ SubSeq(file, fmt_pos + 17, fmt_pos + 20) = <<1, 2, 100, 97>>
  /\ chunk_id = Field(fmt_pos + 16, 4)

----------------------------------------------------------------------------
(* C17 *)

\* C17 (as stated): next never consumes more bytes than the data chunk
\* declares, and every returned frame lies within the data chunk.
C17_WithinDataChunk ==
  Opened =>
    /\ pos - data_pos <= data_size
    /\ \A i \in 1..Len(frames) :
         frame_pos[i] + FrameBytes <= data_pos + data_size

----------------------------------------------------------------------------
(* C18 *)

\* C18: every step of the chunk walk leaves the loop or moves the cursor at
\* least 8 bytes forward (a LIST skip never moves it back); a step that finds
\* the cursor too close to the end of the file, or past it, fails with
\* ParseError("Unexpected EOF").  The file is finite, so the walk takes at
\* most Len(file) / 8 + 1 iterations.
C18_WalkTerminates ==
  [][pc = "loop" =>
       /\ (pc' # "loop" \/ pos' >= pos + 8)
       /\ (pos + 8 > Len(file) =>
             /\ pc' = "failed"
             /\ err' = [kind |-> "ParseError", msg |-> "Unexpected EOF"])
    ]_vars

\* a LIST chunk declaring more bytes than the file holds put the cursor past
\* the end, and the next header read failed
C18_Witness ==
  /\ pc = "failed"
  /\ err = [kind |-> "ParseError", msg |-> "Unexpected EOF"]
  /\ chunk_id = LIST
  /\ pos > Len(file)

----------------------------------------------------------------------------
(* C19 *)

\* C19: for every validated format chunk the product channels * bits fits in
\* 32 bits, the divisor of line 161 is at least 1 (open never divides by zero),
\* and the counted frames, at channels * (bits / 8) bytes each as next reads
\* them, take no more than the declared size of the data chunk.
C19_CountFits ==
  /\ ~(pc = "panic" /\ calls = 0)
  /\ Opened =>
       /\ 1 <= FileChannels /\ FileChannels <= 65535
       /\ 8 <= FileBits /\ FileBits <= 65535
       /\ MulU16(FileChannels, FileBits).hi < 65536
       /\ FileChannels * (FileBits \div 8)
            + (FileChannels * (FileBits % 8)) \div 8 >= 1
       /\ info.total_frames * FileChannels * (FileBits \div 8) <= data_size

\* a reader for 65535 channels of 65535 bits whose data chunk declares enough
\* for one frame
C19_Witness ==
  /\ pc = "open"
  /\ info.channels = 65535
  /\ info.bits_per_sample = 65535
  /\ info.total_frames = 1

====
